---- MODULE Spec2Model ----
(***************************************************************************)
(* Cover position controller of cover-control-arduino.ino: one window      *)
(* (cover 0) and two curtains (covers 1 and 2), commanded by UDP datagrams *)
(* and a wall switch, moved by pulsing the opto-coupler lines of three     *)
(* remote controls.                                                        *)
(***************************************************************************)
EXTENDS Integers, Sequences, FiniteSets, TLC

----------------------------------------------------------------------------
(* Bounds of the model *)

\* datagrams the receive buffer of the network chip holds at once
MaxQueue == 2
\* legal raw samples of one getOpModeStable call that are remembered
MaxHist == 3
\* samples of the washer script that are counted
MaxSeen == 6

----------------------------------------------------------------------------
(* Constants of the sketch *)

UDP_TX_PACKET_MAX_SIZE == 24

Covers == 0 .. 2
OPTO_DOWN == (0 :> 2 @@ 1 :> 5 @@ 2 :> 8)
OPTO_UP == (0 :> 3 @@ 1 :> 6 @@ 2 :> 9)
MANUAL_DOWN == 17
MANUAL_UP == 16

OutputPins == {OPTO_DOWN[i] : i \in Covers} \cup {OPTO_UP[i] : i \in Covers}
InputPins == {MANUAL_DOWN, MANUAL_UP}

OperationMode == {"automatic", "manual_down", "manual_up"}
Position == {"unknown", "up", "down"}

----------------------------------------------------------------------------
(* Datagram payloads: sequences of bytes, one character per byte *)

NUL == "NUL"

WINDOW_OPEN == <<"w", "i", "n", "d", "o", "w", " ", "o", "p", "e", "n">>
WINDOW_CLOSE == <<"w", "i", "n", "d", "o", "w", " ", "c", "l", "o", "s", "e">>
CURTAIN_OPEN == <<"c", "u", "r", "t", "a", "i", "n", " ", "o", "p", "e", "n">>
CURTAIN_CLOSE == <<"c", "u", "r", "t", "a", "i", "n", " ", "c", "l", "o", "s", "e">>

Literals == {WINDOW_OPEN, WINDOW_CLOSE, CURTAIN_OPEN, CURTAIN_CLOSE}

RECURSIVE Pad(_, _)
Pad(s, n) == IF Len(s) >= n THEN s ELSE Pad(Append(s, "x"), n)

\* The payloads the network delivers in the model: the four commands, the
\* empty datagram, and payloads that are none of the four literals (another
\* word, a literal followed by a NUL byte and one more byte, and a literal
\* followed by other bytes up to the size of the packet buffer).
Payloads ==
    Literals \cup
    { <<>>,
      <<"f", "r", "o", "b", "n", "i", "c", "a", "t", "e">>,
      CURTAIN_CLOSE \o <<NUL, "x">>,
      Pad(WINDOW_CLOSE, UDP_TX_PACKET_MAX_SIZE) }

----------------------------------------------------------------------------
(* Library functions as the sketch uses them *)

Min(a, b) == IF a <= b THEN a ELSE b

\* udp.parsePacket(): the size of the next datagram's payload, 0 when no
\* datagram is pending.
parsePacket(q) == IF q = <<>> THEN 0 ELSE Len(Head(q))

\* udp.read(packetBuffer, UDP_TX_PACKET_MAX_SIZE) followed by the
\* terminator of lines 83-85.  Bytes behind the terminator are left over
\* from earlier datagrams and are never read by strcmp.
readPacket(payload) ==
    LET packetSize == Len(payload)
        bytes == SubSeq(payload, 1, Min(packetSize, UDP_TX_PACKET_MAX_SIZE))
    IN  IF packetSize < UDP_TX_PACKET_MAX_SIZE THEN Append(bytes, NUL) ELSE bytes

\* The C string held in a buffer: the bytes before the first NUL.
RECURSIVE CString(_)
CString(buf) ==
    IF buf = <<>> \/ Head(buf) = NUL THEN <<>>
    ELSE <<Head(buf)>> \o CString(Tail(buf))

\* strcmp(buf, literal): 0 when equal.  Every literal is shorter than the
\* buffer, so the comparison ends inside the buffer even without a NUL.
strcmp(buf, literal) == IF CString(buf) = literal THEN 0 ELSE 1

\* getTargetPosition without the exemption of the window
getTargetPosition_noExemption(i, mode, automatic) ==
    CASE mode = "manual_down" -> "down"
      [] mode = "manual_up" -> "up"
      [] mode = "automatic" -> automatic[i]
      [] OTHER -> "unknown"

\* getTargetPosition that never looks at the mode
getTargetPosition_automaticOnly(i, mode, automatic) == automatic[i]

\* getTargetPosition(idx), lines 105-125
getTargetPosition(i, mode, automatic) ==
    LET opMode == IF i = 0 THEN "automatic" ELSE mode
    IN  CASE opMode = "manual_down" -> "down"
          [] opMode = "manual_up" -> "up"
          [] opMode = "automatic" -> automatic[i]
          [] OTHER -> "unknown"

\* The switch expression of getOpMode, line 142
rawSwitch(lv) ==
    2 * (IF lv[MANUAL_UP] = "HIGH" THEN 1 ELSE 0)
      + (IF lv[MANUAL_DOWN] = "HIGH" THEN 1 ELSE 0)

\* a getOpMode whose case 3 returns as well
returnsMode_always(raw) == TRUE

\* whether the switch of getOpMode returns, lines 143-151: not in case 3
returnsMode(raw) == raw # 3

\* The cases of getOpMode that return, lines 143-148; case 3 returns nothing
rawMode(raw) ==
    CASE raw = 0 -> "automatic"
      [] raw = 1 -> "manual_down"
      [] raw = 2 -> "manual_up"
      [] OTHER -> "none"

\* selectOpto with the two lines exchanged
selectOpto_exchanged(i, t) ==
    CASE t = "up" -> OPTO_DOWN[i]
      [] t = "down" -> OPTO_UP[i]
      [] OTHER -> -1

\* The line setPosition selects for a target, lines 165-175
selectOpto(i, t) ==
    CASE t = "up" -> OPTO_UP[i]
      [] t = "down" -> OPTO_DOWN[i]
      [] OTHER -> -1

\* applyCommand whose curtain commands reach every cover
applyCommand_allCovers(automatic, buf) ==
    IF strcmp(buf, WINDOW_OPEN) = 0 THEN [automatic EXCEPT ![0] = "up"]
    ELSE IF strcmp(buf, WINDOW_CLOSE) = 0 THEN [automatic EXCEPT ![0] = "down"]
    ELSE IF strcmp(buf, CURTAIN_OPEN) = 0 THEN [i \in Covers |-> "up"]
    ELSE IF strcmp(buf, CURTAIN_CLOSE) = 0 THEN [i \in Covers |-> "down"]
    ELSE automatic

\* applyCommand that keeps the first command of a group
applyCommand_firstWins(automatic, buf) ==
    IF strcmp(buf, WINDOW_OPEN) = 0 /\ automatic[0] = "unknown"
    THEN [automatic EXCEPT ![0] = "up"]
    ELSE IF strcmp(buf, WINDOW_CLOSE) = 0 /\ automatic[0] = "unknown"
    THEN [automatic EXCEPT ![0] = "down"]
    ELSE IF strcmp(buf, CURTAIN_OPEN) = 0 /\ automatic[1] = "unknown"
    THEN [automatic EXCEPT ![1] = "up", ![2] = "up"]
    ELSE IF strcmp(buf, CURTAIN_CLOSE) = 0 /\ automatic[1] = "unknown"
    THEN [automatic EXCEPT ![1] = "down", ![2] = "down"]
    ELSE automatic

\* applyCommand whose curtain commands reach the first curtain only
applyCommand_firstCurtain(automatic, buf) ==
    IF strcmp(buf, WINDOW_OPEN) = 0 THEN [automatic EXCEPT ![0] = "up"]
    ELSE IF strcmp(buf, WINDOW_CLOSE) = 0 THEN [automatic EXCEPT ![0] = "down"]
    ELSE IF strcmp(buf, CURTAIN_OPEN) = 0 THEN [automatic EXCEPT ![1] = "up"]
    ELSE IF strcmp(buf, CURTAIN_CLOSE) = 0 THEN [automatic EXCEPT ![1] = "down"]
    ELSE automatic

\* The branches of updateAutomaticPosition, lines 87-99
applyCommand(automatic, buf) ==
    IF strcmp(buf, WINDOW_OPEN) = 0 THEN [automatic EXCEPT ![0] = "up"]
    ELSE IF strcmp(buf, WINDOW_CLOSE) = 0 THEN [automatic EXCEPT ![0] = "down"]
    ELSE IF strcmp(buf, CURTAIN_OPEN) = 0
         THEN [automatic EXCEPT ![1] = "up", ![2] = "up"]
    ELSE IF strcmp(buf, CURTAIN_CLOSE) = 0
         THEN [automatic EXCEPT ![1] = "down", ![2] = "down"]
    ELSE automatic

\* a digitalWrite that can only drive a pin HIGH
digitalWrite_stuckHigh(lv, pin, value) == [lv EXCEPT ![pin] = "HIGH"]

\* digitalWrite(pin, value), lines 178 and 180
digitalWrite(lv, pin, value) == [lv EXCEPT ![pin] = value]

\* recordPosition that records the position of the window
recordPosition_window(current, i, t) == [current EXCEPT ![0] = t]

\* recordPosition that does not record
recordPosition_forgotten(current, i, t) == current

\* currentPosition[idx] = target, line 185
recordPosition(current, i, t) == [current EXCEPT ![i] = t]

\* automatic targets that start as up
initialAutomaticPosition_up == [i \in Covers |-> "up"]

\* the initial values of lines 43 and 44
initialAutomaticPosition == [i \in Covers |-> "unknown"]
initialCurrentPosition == [i \in Covers |-> "unknown"]

\* whether one of the branches of lines 91-96 is taken
isCurtainCommand(buf) ==
    strcmp(buf, CURTAIN_OPEN) = 0 \/ strcmp(buf, CURTAIN_CLOSE) = 0

\* whether one of the four branches is taken
isCommand(buf) == \E l \in Literals : strcmp(buf, l) = 0

----------------------------------------------------------------------------
(* State *)

VARIABLES
    automaticPosition,  \* Position automaticPosition[], line 43
    currentPosition,    \* Position currentPosition[], line 44
    curtainOpMode,      \* OperationMode curtainOpMode, line 45
    level,              \* level of every pin used by the sketch
    udpQueue,           \* datagrams received and not yet parsed
    pc,                 \* position of the sketch in loop()
    idx,                \* loop variable of line 69
    target,             \* parameter of setPosition
    opto,               \* local of setPosition
    opMode,             \* local of getOpModeStable
    previousOpMode,     \* local of getOpModeStable
    phases,             \* what this loop iteration has done so far, in order
    samples,            \* legal raw modes sampled by this getOpModeStable call
    lastTarget,         \* per cover, the target of its last setPosition call
    call,               \* the setPosition call that returned last in this iteration
    lastPulse,          \* per cover, the direction of its last completed pulse
    overridden,         \* the last curtain command was recorded under a manual
                        \* mode and no automatic iteration has ended since
    commandSeen,        \* a datagram has been taken as a command since startup
    manualSeen          \* a manual input has been sampled HIGH since startup

\* The sketch for one curtain, arduino-cover/cover-control/cover-control.ino
VARIABLES
    singleAutomaticPosition,  \* CurtainPosition automaticPosition, line 43
    singleCurrentPosition,    \* CurtainPosition currentPosition, line 44
    singlePacketBuffer,       \* char packetBuffer[], line 46
    singleLevel,              \* level of each pin of that board
    singleQueue,              \* datagrams its network chip holds, oldest first
    singlePc,                 \* where its loop() is
    singleTarget,             \* parameter of moveCurtain
    singleOpto                \* local of moveCurtain

single == <<singleAutomaticPosition, singleCurrentPosition, singlePacketBuffer,
            singleLevel, singleQueue, singlePc, singleTarget, singleOpto>>

\* The washer script, energy-monitor-shelly.js
VARIABLES
    lastState,          \* let lastState, line 4
    seenAsInactive,     \* let seenAsInactive, line 5
    seenAsActive,       \* let seenAsActive, line 6
    power,              \* apower of the last call, in tenths of a watt
    publishing,         \* what the last call published, "none" if nothing
    lastPublished,      \* the state published last, "none" before the first
    lowsSinceHigh,      \* samples below 3.2 W since the last one above 20 W
    highsSinceLow       \* samples above 20 W since the last one below 3.2 W

shelly == <<lastState, seenAsInactive, seenAsActive, power, publishing,
            lastPublished, lowsSinceHigh, highsSinceLow>>

\* the state the script has when the timer is set, lines 4-6
InitShelly ==
    /\ lastState = ""
    /\ seenAsInactive = 0
    /\ seenAsActive = 0
    /\ power = 0
    /\ publishing = "none"
    /\ lastPublished = "none"
    /\ lowsSinceHigh = 0
    /\ highsSinceLow = 0

\* the boards and the plug do not share state
others == <<single, shelly>>

SIGNAL_LED == 7
SINGLE_OPTO_DOWN == 2
SINGLE_OPTO_UP == 5
SINGLE_MANUAL_DOWN == 6
SINGLE_MANUAL_UP == 8
SinglePins ==
    {SIGNAL_LED, SINGLE_OPTO_DOWN, SINGLE_OPTO_UP, SINGLE_MANUAL_DOWN,
     SINGLE_MANUAL_UP}

\* the state setup() of that sketch leaves, lines 43-63
InitSingle ==
    /\ singleAutomaticPosition = "unknown"
    /\ singleCurrentPosition = "unknown"
    /\ singlePacketBuffer = [k \in 1..UDP_TX_PACKET_MAX_SIZE |-> NUL]
    /\ singleLevel = [p \in SinglePins |-> "LOW"]
    /\ singleQueue = <<>>
    /\ singlePc = "updateAutomaticPosition"
    /\ singleTarget = "none"
    /\ singleOpto = -1

prog == <<automaticPosition, currentPosition, curtainOpMode, pc, idx, target,
          opto, opMode, previousOpMode>>
hist == <<phases, samples, lastTarget, call, lastPulse, overridden, commandSeen,
          manualSeen>>
vars == <<automaticPosition, currentPosition, curtainOpMode, level, udpQueue,
          pc, idx, target, opto, opMode, previousOpMode, phases, samples,
          lastTarget, call, lastPulse, overridden, commandSeen, manualSeen,
          others>>

NoCall == [idx |-> -1, target |-> "none", before |-> "none", repeat |-> FALSE,
           pulsed |-> {}]

\* the state setup() leaves, lines 43-60; the wall switch is in any position
Init ==
    /\ automaticPosition = initialAutomaticPosition
    /\ currentPosition = initialCurrentPosition
    /\ curtainOpMode = "automatic"
    /\ level \in {l \in [OutputPins \cup InputPins -> {"LOW", "HIGH"}] :
                    \A p \in OutputPins : l[p] = "LOW"}
    /\ udpQueue = <<>>
    /\ pc = "loop"
    /\ idx = 0
    /\ target = "none"
    /\ opto = -1
    /\ opMode = "none"
    /\ previousOpMode = "none"
    /\ phases = <<>>
    /\ samples = <<>>
    /\ lastTarget = [i \in Covers |-> "none"]
    /\ call = NoCall
    /\ lastPulse = [i \in Covers |-> "none"]
    /\ overridden = FALSE
    /\ commandSeen = FALSE
    /\ manualSeen = FALSE
    /\ InitSingle
    /\ InitShelly

\* phases without immediate repetitions
Note(e) ==
    IF phases # <<>> /\ phases[Len(phases)] = e THEN phases ELSE Append(phases, e)

PulseEvent == (0 :> "pulse0" @@ 1 :> "pulse1" @@ 2 :> "pulse2")

Remember(s, m) ==
    LET t == Append(s, m) IN IF Len(t) > MaxHist THEN Tail(t) ELSE t

----------------------------------------------------------------------------
(* Environment *)

\* A datagram arrives on port 8888; the chip drops it when its buffer is
\* full.  The sketch looks at the chip only in updateAutomaticPosition, so a
\* datagram that arrives at any other time is one that arrives when that
\* function is entered.
Arrive ==
    /\ UNCHANGED others
    /\ pc = "updateAutomaticPosition"
    /\ Len(udpQueue) < MaxQueue
    /\ \E p \in Payloads : udpQueue' = Append(udpQueue, p)
    /\ UNCHANGED <<prog, hist, level>>

\* The wall switch changes one of the manual inputs.  The sketch reads the
\* inputs only in getOpMode, so a change at any other time is one that
\* happens when getOpModeStable is entered.
SwitchChange ==
    /\ UNCHANGED others
    /\ pc \in {"getOpMode", "getOpModeAgain"}
    /\ \E p \in InputPins :
         level' = [level EXCEPT ![p] = IF @ = "HIGH" THEN "LOW" ELSE "HIGH"]
    /\ UNCHANGED <<prog, hist, udpQueue>>

----------------------------------------------------------------------------
(* loop(), lines 62-72 *)

\* Ethernet.maintain(), line 63, then the call of line 65
LoopStart ==
    /\ UNCHANGED others
    /\ pc = "loop"
    /\ pc' = "updateAutomaticPosition"
    /\ phases' = <<>>
    /\ call' = NoCall
    /\ overridden' = (overridden /\ curtainOpMode # "automatic")
    /\ UNCHANGED <<lastPulse, automaticPosition, currentPosition,
                   curtainOpMode, level, udpQueue, idx, target, opto, opMode,
                   previousOpMode, samples, lastTarget, commandSeen,
                   manualSeen>>

\* one pass of the while loop of updateAutomaticPosition that handles a
\* datagram, lines 77-99
UpdatePacket ==
    /\ UNCHANGED others
    /\ pc = "updateAutomaticPosition"
    /\ parsePacket(udpQueue) # 0
    /\ LET packetBuffer == readPacket(Head(udpQueue))
       IN  /\ automaticPosition' = applyCommand(automaticPosition, packetBuffer)
           /\ commandSeen' = (commandSeen \/ isCommand(packetBuffer))
           /\ overridden' = IF isCurtainCommand(packetBuffer)
                             THEN curtainOpMode # "automatic"
                             ELSE overridden
    /\ udpQueue' = Tail(udpQueue)
    /\ phases' = Note("ingest")
    /\ UNCHANGED <<lastPulse, currentPosition, curtainOpMode, level, pc, idx,
                   target, opto, opMode, previousOpMode, samples, lastTarget,
                   call, manualSeen>>

\* parsePacket() returns 0 and updateAutomaticPosition returns, lines 77-80;
\* then getOpModeStable is entered, line 67.  A datagram without payload is
\* taken from the chip by parsePacket and has size 0.
UpdateReturn ==
    /\ UNCHANGED others
    /\ pc = "updateAutomaticPosition"
    /\ parsePacket(udpQueue) = 0
    /\ udpQueue' = IF udpQueue = <<>> THEN <<>> ELSE Tail(udpQueue)
    /\ pc' = "getOpMode"
    /\ phases' = Note("ingest")
    /\ samples' = <<>>
    /\ UNCHANGED <<lastPulse, overridden, automaticPosition, currentPosition,
                   curtainOpMode, level, idx, target, opto, opMode,
                   previousOpMode, lastTarget, call, commandSeen, manualSeen>>

\* getOpMode() reads both inputs HIGH and waits, lines 149-153
SampleIllegal ==
    /\ UNCHANGED others
    /\ pc \in {"getOpMode", "getOpModeAgain"}
    /\ ~returnsMode(rawSwitch(level))
    /\ phases' = Note("sample")
    /\ manualSeen' = TRUE
    /\ UNCHANGED <<lastPulse, overridden, automaticPosition, currentPosition,
                   curtainOpMode, level, udpQueue, pc, idx, target, opto,
                   opMode, previousOpMode, samples, lastTarget, call,
                   commandSeen>>

\* the first getOpMode() of getOpModeStable returns, line 129; the do loop
\* is entered: delay(200), previousOpMode = opMode, lines 131-133
SampleFirst ==
    /\ UNCHANGED others
    /\ pc = "getOpMode"
    /\ returnsMode(rawSwitch(level))
    /\ LET m == rawMode(rawSwitch(level))
       IN  /\ opMode' = m
           /\ previousOpMode' = m
           /\ samples' = Remember(samples, m)
           /\ manualSeen' = (manualSeen \/ rawSwitch(level) # 0)
    /\ pc' = "getOpModeAgain"
    /\ phases' = Note("sample")
    /\ UNCHANGED <<lastPulse, overridden, automaticPosition, currentPosition,
                   curtainOpMode, level, udpQueue, idx, target, opto,
                   lastTarget, call, commandSeen>>

\* a do loop that always goes round again
sampleAgain_always(previous, mode) == TRUE

\* a do loop that never goes round again
sampleAgain_never(previous, mode) == FALSE

\* whether the do loop of getOpModeStable goes round again, line 135
sampleAgain(previous, mode) == previous # mode

\* the getOpMode() of line 134 returns: either the do loop goes round again
\* (lines 135, 132-133) or getOpModeStable returns and loop() stores the
\* mode and starts the for loop, lines 136, 67, 69
SampleAgain ==
    /\ UNCHANGED others
    /\ pc = "getOpModeAgain"
    /\ returnsMode(rawSwitch(level))
    /\ LET m == rawMode(rawSwitch(level))
       IN  /\ samples' = Remember(samples, m)
           /\ manualSeen' = (manualSeen \/ rawSwitch(level) # 0)
           /\ IF sampleAgain(previousOpMode, m)
              THEN /\ opMode' = m
                   /\ previousOpMode' = m
                   /\ phases' = Note("sample")
                   /\ UNCHANGED <<curtainOpMode, pc, idx>>
              ELSE /\ curtainOpMode' = m
                   /\ opMode' = "none"
                   /\ previousOpMode' = "none"
                   /\ pc' = "setPosition"
                   /\ idx' = 0
                   /\ phases' = Append(Note("sample"), "resolved")
    /\ UNCHANGED <<lastPulse, overridden, automaticPosition, currentPosition,
                   level, udpQueue, target, opto, lastTarget, call,
                   commandSeen>>

\* a for loop that polls the network again after every cover
AfterCall_poll(i) ==
    /\ idx' = IF i + 1 < 3 THEN i + 1 ELSE 0
    /\ pc' = IF i + 1 < 3 THEN "updateAutomaticPosition" ELSE "loop"

\* where loop() continues when setPosition(i, ..) has returned, lines 69-72
AfterCall(i) ==
    IF i + 1 < 3 THEN /\ idx' = i + 1
                      /\ pc' = "setPosition"
                 ELSE /\ idx' = 0
                      /\ pc' = "loop"

\* setPosition without the comparison of lines 159-162
nothingToDo_noComparison(t, current) == selectOpto(0, t) = -1

\* whether setPosition returns without a pulse, lines 159-162 and 172-174
nothingToDo(t, current) == t = current \/ selectOpto(0, t) = -1

\* setPosition(idx, getTargetPosition(idx)) is called and returns without
\* a pulse, lines 70, 159-162, 172-174
SetPositionSkip ==
    /\ UNCHANGED others
    /\ pc = "setPosition"
    /\ level' = level
    /\ LET t == getTargetPosition(idx, curtainOpMode, automaticPosition)
       IN  /\ nothingToDo(t, currentPosition[idx])
           /\ call' = [idx |-> idx, target |-> t, before |-> currentPosition[idx],
                       repeat |-> (t = lastTarget[idx]),
                       pulsed |-> {p \in OutputPins : level'[p] # level[p]}]
           /\ lastTarget' = [lastTarget EXCEPT ![idx] = t]
    /\ AfterCall(idx)
    /\ samples' = <<>>
    /\ UNCHANGED <<lastPulse, overridden, automaticPosition, currentPosition,
                   curtainOpMode, udpQueue, target, opto, opMode,
                   previousOpMode, phases, commandSeen, manualSeen>>

\* setPosition(idx, getTargetPosition(idx)) is called and drives its line
\* HIGH, lines 70, 159-178
SetPositionHigh ==
    /\ UNCHANGED others
    /\ pc = "setPosition"
    /\ LET t == getTargetPosition(idx, curtainOpMode, automaticPosition)
       IN  /\ ~nothingToDo(t, currentPosition[idx])
           /\ target' = t
           /\ opto' = selectOpto(idx, t)
           /\ level' = digitalWrite(level, selectOpto(idx, t), "HIGH")
    /\ pc' = "delay"
    /\ phases' = Append(phases, PulseEvent[idx])
    /\ samples' = <<>>
    /\ UNCHANGED <<lastPulse, overridden, automaticPosition, currentPosition,
                   curtainOpMode, udpQueue, idx, opMode, previousOpMode,
                   lastTarget, call, commandSeen, manualSeen>>

\* after delay(200) the line is driven LOW, the position is recorded and
\* setPosition returns, lines 179-186
SetPositionLow ==
    /\ UNCHANGED others
    /\ pc = "delay"
    /\ level' = digitalWrite(level, opto, "LOW")
    /\ currentPosition' = recordPosition(currentPosition, idx, target)
    /\ call' = [idx |-> idx, target |-> target, before |-> currentPosition[idx],
                repeat |-> (target = lastTarget[idx]),
                pulsed |-> {p \in OutputPins : level[p] = "HIGH" /\ level'[p] = "LOW"}]
    /\ lastTarget' = [lastTarget EXCEPT ![idx] = target]
    /\ lastPulse' = [i \in Covers |->
                        IF level[OPTO_UP[i]] = "HIGH" /\ level'[OPTO_UP[i]] = "LOW"
                        THEN "up"
                        ELSE IF level[OPTO_DOWN[i]] = "HIGH"
                                /\ level'[OPTO_DOWN[i]] = "LOW"
                        THEN "down"
                        ELSE lastPulse[i]]
    /\ target' = "none"
    /\ opto' = -1
    /\ AfterCall(idx)
    /\ UNCHANGED <<overridden, automaticPosition, curtainOpMode, udpQueue,
                   opMode, previousOpMode, phases, samples, commandSeen,
                   manualSeen>>

Next ==
    \/ Arrive
    \/ SwitchChange
    \/ LoopStart
    \/ UpdatePacket
    \/ UpdateReturn
    \/ SampleIllegal
    \/ SampleFirst
    \/ SampleAgain
    \/ SetPositionSkip
    \/ SetPositionHigh
    \/ SetPositionLow

Spec == Init /\ [][Next]_vars

\* the steps of the sketch itself
Step ==
    \/ LoopStart
    \/ UpdatePacket
    \/ UpdateReturn
    \/ SampleIllegal
    \/ SampleFirst
    \/ SampleAgain
    \/ SetPositionSkip
    \/ SetPositionHigh
    \/ SetPositionLow

\* The processor keeps executing the sketch: loop() is called again whenever
\* it returns and every delay() ends.  Nothing is assumed of the datagrams
\* and of the wall switch.
SpecFair == Spec /\ WF_vars(Step)

----------------------------------------------------------------------------
(* Properties of setPosition *)

\* the two lines of a cover
LinesOf(i) == {OPTO_UP[i], OPTO_DOWN[i]}

\* the output lines that are HIGH
HighLines == {p \in OutputPins : level[p] = "HIGH"}

\* the call that returned last had something to do
Actuation == call.idx # -1 /\ call.target # call.before /\ call.target # "unknown"

\* C1: a setPosition(idx, target) call pulses a line of cover idx if and only
\* if target differs from currentPosition[idx] as the call found it and target
\* is not unknown; in every other case no output line changes level during
\* the call.
C1_PulseIffTargetDiffers ==
    call.idx # -1 =>
        /\ (call.pulsed \cap LinesOf(call.idx) # {}) <=> Actuation
        /\ call.pulsed \subseteq LinesOf(call.idx)
        /\ ~Actuation => call.pulsed = {}

\* a curtain that was up has been pulsed, and so has been reversed
C1_Witness ==
    /\ call.idx = 1
    /\ call.before = "up"
    /\ call.target = "down"
    /\ call.pulsed # {}

\* C2: an actuation of cover idx pulses exactly one of OPTO_UP[idx] and
\* OPTO_DOWN[idx]: the up line when the target is up, the down line when the
\* target is down; while the pulse lasts that line alone is HIGH.
C2_ExactlyOneLine ==
    /\ Actuation =>
          call.pulsed = {IF call.target = "up" THEN OPTO_UP[call.idx]
                                               ELSE OPTO_DOWN[call.idx]}
    /\ pc = "delay" =>
          /\ target \in {"up", "down"}
          /\ HighLines = {IF target = "up" THEN OPTO_UP[idx] ELSE OPTO_DOWN[idx]}

\* the second curtain has been pulsed on its down line, pin 8
C2_Witness ==
    /\ Actuation
    /\ call.idx = 2
    /\ call.target = "down"
    /\ call.pulsed = {8}

\* C3: of two successive setPosition calls for a cover with the same target
\* t, t not unknown, the second neither pulses a line nor changes
\* currentPosition; a call that finds currentPosition[idx] different from t
\* pulses exactly one line, is not such a second call, and leaves
\* currentPosition[idx] = t.
C3_SecondCallIsNoOp ==
    call.idx # -1 /\ call.target # "unknown" =>
        /\ call.repeat =>
              /\ call.pulsed = {}
              /\ call.before = call.target
        /\ call.before # call.target =>
              /\ Cardinality(call.pulsed) = 1
              /\ ~call.repeat
        /\ currentPosition[call.idx] = call.target

\* a cover was sent up by one call, and the next call for it, with the same
\* target, has returned without a pulse
C3_Witness ==
    /\ call.idx = 0
    /\ call.repeat
    /\ call.target = "up"
    /\ call.pulsed = {}
    /\ currentPosition[0] = "up"

----------------------------------------------------------------------------
(* Properties of updateAutomaticPosition *)

\* a pass of the while loop takes the first pending datagram from the chip
Ingests ==
    /\ pc = "updateAutomaticPosition"
    /\ udpQueue # <<>>
    /\ udpQueue' = Tail(udpQueue)

\* C4: "window open"/"window close" set automaticPosition[0] to up/down and
\* leave automaticPosition[1] and [2] unchanged; "curtain open"/"curtain
\* close" set automaticPosition[1] and [2] to up/down and leave
\* automaticPosition[0] unchanged; while updateAutomaticPosition runs neither
\* currentPosition[] nor the level of an output line changes.
C4_CommandMapping ==
    [][ /\ Ingests =>
           LET payload == Head(udpQueue)
           IN  /\ payload = WINDOW_OPEN =>
                     automaticPosition' = [automaticPosition EXCEPT ![0] = "up"]
               /\ payload = WINDOW_CLOSE =>
                     automaticPosition' = [automaticPosition EXCEPT ![0] = "down"]
               /\ payload = CURTAIN_OPEN =>
                     automaticPosition' =
                        [automaticPosition EXCEPT ![1] = "up", ![2] = "up"]
               /\ payload = CURTAIN_CLOSE =>
                     automaticPosition' =
                        [automaticPosition EXCEPT ![1] = "down", ![2] = "down"]
        /\ pc = "updateAutomaticPosition" =>
               /\ currentPosition' = currentPosition
               /\ \A p \in OutputPins : level'[p] = level[p]
      ]_vars

\* the curtains were sent up in automatic mode by the iteration before, and
\* this iteration has taken a "curtain close": the automatic targets of the
\* curtains are down, that of the window is still up, no cover has moved
C4_Witness ==
    /\ pc = "updateAutomaticPosition"
    /\ phases = <<"ingest">>
    /\ curtainOpMode = "automatic"
    /\ lastTarget = (0 :> "up" @@ 1 :> "up" @@ 2 :> "up")
    /\ currentPosition = (0 :> "up" @@ 1 :> "up" @@ 2 :> "up")
    /\ automaticPosition = (0 :> "up" @@ 1 :> "down" @@ 2 :> "down")
    /\ HighLines = {}

\* C5: a payload that is none of the four literals "window open", "window
\* close", "curtain open", "curtain close" leaves every automaticPosition[]
\* entry unchanged.
C5_OnlyLiteralsRecognized ==
    [][ Ingests /\ Head(udpQueue) \notin Literals =>
            automaticPosition' = automaticPosition ]_vars

\* C6: updateAutomaticPosition returns only when no datagram is pending.
C6_DrainsFully ==
    [][ pc = "updateAutomaticPosition" /\ pc' # "updateAutomaticPosition" =>
            udpQueue' = <<>> ]_vars

----------------------------------------------------------------------------
(* Properties of getOpModeStable and getTargetPosition *)

\* getOpModeStable has just returned and loop() has stored the mode
Resolved == pc = "setPosition" /\ idx = 0

\* C7: the mode getOpModeStable returns equals both of the last two legal
\* raw samples of the call; after a single legal sample, and while the last
\* legal sample differs from the one before it, the call has not returned.
C7_TwoSamplesAgree ==
    LET n == Len(samples)
    IN  /\ Resolved =>
              /\ n >= 2
              /\ curtainOpMode = samples[n]
              /\ curtainOpMode = samples[n - 1]
        /\ n = 1 => pc = "getOpModeAgain"
        /\ n >= 2 /\ samples[n] # samples[n - 1] => pc = "getOpModeAgain"

\* the raw samples manual_down, manual_up, manual_up: the call has not
\* returned with the second sample and has returned manual_up with the third
C7_Witness ==
    /\ Resolved
    /\ samples = <<"manual_down", "manual_up", "manual_up">>
    /\ curtainOpMode = "manual_up"

\* C8: for covers 1 and 2 getTargetPosition returns down when curtainOpMode
\* is manual_down, up when it is manual_up, and automaticPosition[idx] when it
\* is automatic; for cover 0 it returns automaticPosition[0] under every
\* mode.  This holds of the function for every mode, and of the target of
\* every setPosition call loop() makes.
C8_ManualPrecedence ==
    LET ExpectedTarget(i, m) ==
            IF i \in {1, 2} /\ m = "manual_down" THEN "down"
            ELSE IF i \in {1, 2} /\ m = "manual_up" THEN "up"
            ELSE automaticPosition[i]
    IN  /\ \A i \in Covers, m \in OperationMode :
              getTargetPosition(i, m, automaticPosition) = ExpectedTarget(i, m)
        /\ call.idx # -1 => call.target = ExpectedTarget(call.idx, curtainOpMode)
        /\ pc = "delay" => target = ExpectedTarget(idx, curtainOpMode)

\* mode manual_down, automatic target of cover 1 up: the target of cover 1
\* was down, that of cover 0 was its automatic target up
C8_Witness ==
    /\ curtainOpMode = "manual_down"
    /\ automaticPosition = (0 :> "up" @@ 1 :> "up" @@ 2 :> "up")
    /\ call.idx = 1
    /\ call.target = "down"
    /\ lastTarget[0] = "up"

----------------------------------------------------------------------------
(* Properties of loop() *)

PhasesDone == {phases[k] : k \in 1 .. Len(phases)}

\* C9: as long as no datagram has been taken as a command and no manual
\* input has been sampled HIGH, no output line is or was driven HIGH and
\* every currentPosition[idx] is unknown.
C9_StartupSafety ==
    ~commandSeen /\ ~manualSeen =>
        /\ HighLines = {}
        /\ call.pulsed = {}
        /\ \A i \in Covers : PulseEvent[i] \notin PhasesDone
        /\ \A i \in Covers : currentPosition[i] = "unknown"

\* a whole iteration has passed, with every target unknown
C9_Witness ==
    /\ ~commandSeen
    /\ ~manualSeen
    /\ pc = "loop"
    /\ \A i \in Covers : lastTarget[i] = "unknown"

\* C10: in every loop iteration all command ingestion precedes every sample
\* of the manual inputs, getOpModeStable has returned before any pulse, and
\* the covers are evaluated and pulsed in the order 0, 1, 2.
C10_PhaseOrder ==
    LET n == Len(phases)
        Preamble == <<"ingest", "sample", "resolved">>
    IN  /\ \A k \in 1 .. n :
              IF k <= 3 THEN phases[k] = Preamble[k]
              ELSE /\ \E i \in Covers : phases[k] = PulseEvent[i]
                   /\ \A i, j \in Covers :
                         phases[k - 1] = PulseEvent[i] /\ phases[k] = PulseEvent[j]
                            => i < j
        /\ pc = "setPosition" =>
              /\ n >= 3
              /\ \A j \in Covers : j >= idx => PulseEvent[j] \notin PhasesDone
        /\ pc = "delay" => n > 3 /\ phases[n] = PulseEvent[idx]
        /\ pc \in {"getOpMode", "getOpModeAgain"} => n <= 2

\* an iteration that has ingested, sampled, resolved the mode and pulsed
\* the three covers
C10_Witness ==
    phases = <<"ingest", "sample", "resolved", "pulse0", "pulse1", "pulse2">>

----------------------------------------------------------------------------
(* Properties of the state of the covers *)

\* the position a last pulse stands for
PositionAfter(direction) == IF direction = "none" THEN "unknown" ELSE direction

\* C11: currentPosition[idx] is the direction of the last completed pulse of
\* cover idx, and unknown exactly when the cover has not been pulsed since
\* startup; it changes only at the end of a pulse of that cover, and never to
\* unknown.
C11_PositionIsLastPulse ==
    /\ [](\A i \in Covers : currentPosition[i] = PositionAfter(lastPulse[i]))
    /\ [][ \A i \in Covers :
              currentPosition'[i] # currentPosition[i] =>
                  /\ pc = "delay"
                  /\ idx = i
                  /\ currentPosition'[i] # "unknown"
                  /\ \E p \in LinesOf(i) : level[p] = "HIGH" /\ level'[p] = "LOW"
         ]_vars

\* the second curtain, last pulsed up, is being pulsed down: until the pulse
\* is complete its position is up; the window has never been pulsed
C11_Witness ==
    /\ pc = "delay"
    /\ idx = 2
    /\ target = "down"
    /\ lastPulse = (0 :> "none" @@ 1 :> "down" @@ 2 :> "up")
    /\ currentPosition = (0 :> "unknown" @@ 1 :> "down" @@ 2 :> "up")

\* getOpModeStable is running
Resolving == pc \in {"getOpMode", "getOpModeAgain"}

\* C12: while both manual inputs read HIGH, getOpMode does not return: the
\* sketch stays in getOpModeStable, no output line changes level, and
\* automaticPosition[], currentPosition[], curtainOpMode and the pending
\* datagrams stay as they are.
C12_IllegalStateWaits ==
    [][ Resolving /\ rawSwitch(level) = 3 /\ rawSwitch(level') = 3 =>
            /\ pc' = pc
            /\ \A p \in OutputPins : level'[p] = "LOW" /\ level[p] = "LOW"
            /\ UNCHANGED <<automaticPosition, currentPosition, curtainOpMode,
                           udpQueue, opMode, previousOpMode, samples>>
      ]_vars

\* the first getOpMode of an iteration has sampled both inputs HIGH and has
\* not returned; the covers have been moved before
C12_Witness ==
    /\ pc = "getOpMode"
    /\ phases = <<"ingest", "sample">>
    /\ rawSwitch(level) = 3
    /\ currentPosition = (0 :> "up" @@ 1 :> "down" @@ 2 :> "down")

\* C13: a line driven HIGH by setPosition is driven LOW before setPosition
\* returns: at most one output line is HIGH at any time, it is the line of
\* the running setPosition call, and every line is LOW while control is
\* outside the pulse of setPosition.
C13_PulseCompletes ==
    /\ Cardinality(HighLines) <= 1
    /\ pc = "delay" => HighLines = {opto} /\ opto \in LinesOf(idx)
    /\ pc # "delay" => HighLines = {}

\* the third pulse of an iteration is running: line 9 alone is HIGH
C13_Witness ==
    /\ pc = "delay"
    /\ phases = <<"ingest", "sample", "resolved", "pulse0", "pulse1", "pulse2">>
    /\ HighLines = {9}

\* a loop iteration has ended
IterationDone == pc = "loop" /\ \A i \in Covers : lastTarget[i] # "none"

\* C15: at the end of every loop iteration, for every cover the target of
\* that iteration is unknown or currentPosition[idx] equals it; a curtain is
\* down when the mode of the iteration was manual_down and up when it was
\* manual_up.
C15_PositionFollowsTarget ==
    IterationDone =>
        /\ \A i \in Covers :
              lastTarget[i] = "unknown" \/ currentPosition[i] = lastTarget[i]
        /\ \A i \in {1, 2} :
              /\ curtainOpMode = "manual_down" => currentPosition[i] = "down"
              /\ curtainOpMode = "manual_up" => currentPosition[i] = "up"

\* an iteration under manual_up has ended: the curtains are up against
\* their automatic target down, the window had no target
C15_Witness ==
    /\ IterationDone
    /\ curtainOpMode = "manual_up"
    /\ automaticPosition = (0 :> "unknown" @@ 1 :> "down" @@ 2 :> "down")
    /\ lastTarget = (0 :> "unknown" @@ 1 :> "up" @@ 2 :> "up")
    /\ currentPosition = (0 :> "unknown" @@ 1 :> "up" @@ 2 :> "up")

----------------------------------------------------------------------------
(* Commands, manual override and the two curtains *)

Curtains == {1, 2}

\* the output line that moves cover i in direction d
LineToward(i, d) == IF d = "up" THEN OPTO_UP[i] ELSE OPTO_DOWN[i]

\* the step of updateAutomaticPosition that takes the datagram cmd
Drains(cmd) ==
    /\ pc = "updateAutomaticPosition"
    /\ udpQueue # <<>>
    /\ Head(udpQueue) = cmd
    /\ udpQueue' = Tail(udpQueue)

\* C17: a curtain command ingested while the accepted mode is manual_up or
\* manual_down is recorded in automaticPosition[1..2] and changes no output;
\* under a manual mode a curtain is pulsed on the forced line only; in the
\* first iteration that accepts automatic again each curtain whose
\* currentPosition differs from the recorded target is pulsed toward it; a
\* curtain without recorded target is not pulsed in automatic mode.
C17_OverrideKeepsCommands ==
    /\ [][ \A d \in {"up", "down"} :
              /\ curtainOpMode # "automatic"
              /\ Drains(IF d = "up" THEN CURTAIN_OPEN ELSE CURTAIN_CLOSE)
              => /\ \A i \in Curtains : automaticPosition'[i] = d
                 /\ level' = level
                 /\ currentPosition' = currentPosition
         ]_vars
    /\ [][ \A i \in Curtains : automaticPosition'[i] # automaticPosition[i] =>
              \E cmd \in Payloads :
                 Drains(cmd) /\ isCurtainCommand(readPacket(cmd)) ]_vars
    /\ [](call.idx \in Curtains =>
            LET i == call.idx
                recorded == automaticPosition[i]
            IN  /\ curtainOpMode = "manual_up" => call.pulsed \subseteq {OPTO_UP[i]}
                /\ curtainOpMode = "manual_down" =>
                       call.pulsed \subseteq {OPTO_DOWN[i]}
                /\ curtainOpMode = "automatic" /\ overridden =>
                       /\ recorded # "unknown"
                       /\ currentPosition[i] = recorded
                       /\ call.pulsed = IF call.before # recorded
                                        THEN {LineToward(i, recorded)} ELSE {}
                /\ curtainOpMode = "automatic" /\ recorded = "unknown" =>
                       /\ call.pulsed = {}
                       /\ currentPosition[i] = call.before)

\* the first automatic iteration after an override has pulsed the first
\* curtain down, as "curtain close" asked while the switch forced it up
C17_Witness ==
    /\ overridden
    /\ curtainOpMode = "automatic"
    /\ call.idx = 1
    /\ call.before = "up"
    /\ call.pulsed = {OPTO_DOWN[1]}
    /\ automaticPosition[1] = "down"
    /\ currentPosition[1] = "down"

\* how often cover i has been pulsed in this iteration
PulsesOf(i) == Cardinality({k \in DOMAIN phases : phases[k] = PulseEvent[i]})

\* the direction a command asks for, and the covers it is for
DirectionOf(cmd) == IF cmd \in {WINDOW_OPEN, CURTAIN_OPEN} THEN "up" ELSE "down"
GroupOf(cmd) == IF cmd \in {WINDOW_OPEN, WINDOW_CLOSE} THEN {0} ELSE Curtains

\* C18: in one loop iteration each cover is pulsed at most once; every
\* drained command overwrites automaticPosition of its group, whatever was
\* drained before, and changes no output; a cover in automatic mode is pulsed
\* toward the last value of automaticPosition, and not at all when that value
\* is its currentPosition.
C18_OnePulsePerIteration ==
    /\ [](\A i \in Covers : PulsesOf(i) <= 1)
    /\ [](pc = "updateAutomaticPosition" => 
             HighLines = {} /\ \A i \in Covers : PulsesOf(i) = 0)
    /\ [][ \A cmd \in Literals : Drains(cmd) =>
              /\ \A i \in GroupOf(cmd) : automaticPosition'[i] = DirectionOf(cmd)
              /\ level' = level
              /\ currentPosition' = currentPosition
         ]_vars
    /\ [](call.idx \in Covers /\ (call.idx = 0 \/ curtainOpMode = "automatic") =>
            LET i == call.idx
                last == automaticPosition[i]
            IN  call.pulsed = IF last \notin {"unknown", call.before}
                              THEN {LineToward(i, last)} ELSE {})

\* "curtain close" has been drained and "curtain open" is drained next in
\* the same ingestion; the curtains were up when the iteration began
C18_Witness ==
    /\ pc = "updateAutomaticPosition"
    /\ phases = <<"ingest">>
    /\ udpQueue = <<CURTAIN_OPEN>>
    /\ curtainOpMode = "automatic"
    /\ lastTarget[1] = "up"
    /\ currentPosition[1] = "up"
    /\ automaticPosition[1] = "down"

\* C19: automaticPosition[1] equals automaticPosition[2] and the two
\* curtains have the same target in every state; outside the setPosition
\* calls of an iteration their last targets and their currentPosition are
\* equal.
C19_Lockstep ==
    /\ automaticPosition[1] = automaticPosition[2]
    /\ getTargetPosition(1, curtainOpMode, automaticPosition)
         = getTargetPosition(2, curtainOpMode, automaticPosition)
    /\ pc \notin {"setPosition", "delay"} =>
          /\ lastTarget[1] = lastTarget[2]
          /\ currentPosition[1] = currentPosition[2]

\* an iteration has ended with both curtains down and the window up
C19_Witness ==
    /\ IterationDone
    /\ lastPulse = (0 :> "up" @@ 1 :> "down" @@ 2 :> "down")
    /\ currentPosition = (0 :> "up" @@ 1 :> "down" @@ 2 :> "down")
    /\ automaticPosition = (0 :> "up" @@ 1 :> "down" @@ 2 :> "down")
    /\ curtainOpMode = "automatic"

----------------------------------------------------------------------------
(* The sketch for one curtain: arduino-cover/cover-control/cover-control.ino *)

OPEN == <<"o", "p", "e", "n">>
CLOSE == <<"c", "l", "o", "s", "e">>

\* The payloads of the datagrams that arrive at that board
SinglePayloads ==
    {OPEN, CLOSE, <<>>, <<"o">>, <<"c", "l", "o">>, OPEN \o <<"s">>,
     <<"s", "t", "o", "p">>, CLOSE \o <<NUL, "x">>}

\* udp.read(packetBuffer, UDP_TX_PACKET_MAX_SIZE), line 77: the bytes of the
\* payload, at most 24, over what the buffer held
readInto(buf, payload) ==
    [k \in 1..UDP_TX_PACKET_MAX_SIZE |->
        IF k <= Len(payload) THEN payload[k] ELSE buf[k]]

\* strncmp(buf, literal, n), lines 79 and 83: 0 when buf and the literal agree
\* in their first n characters, or up to and with the NUL that ends the literal
strncmp(buf, literal, n) ==
    LET lit == literal \o <<NUL>>
    IN  IF \A k \in 1..Min(n, Len(lit)) : buf[k] = lit[k] THEN 0 ELSE 1

\* the two tests of lines 79-85, in their order
applySingleCommand(automatic, buf, packetSize) ==
    LET afterOpen == IF strncmp(buf, OPEN, packetSize) = 0 THEN "up" ELSE automatic
    IN  IF strncmp(buf, CLOSE, packetSize) = 0 THEN "down" ELSE afterOpen

\* getTargetPosition(), lines 89-109
getSingleTargetPosition(lv, automatic) ==
    IF lv[SINGLE_MANUAL_UP] = "HIGH" THEN "up"
    ELSE IF lv[SINGLE_MANUAL_DOWN] = "HIGH" THEN "down"
    ELSE automatic

\* the covers board is not touched
cover == <<prog, hist, level, udpQueue>>

\* A datagram arrives at the board; it is seen in updateAutomaticPosition
SingleArrive ==
    /\ singlePc = "updateAutomaticPosition"
    /\ Len(singleQueue) < MaxQueue
    /\ \E p \in SinglePayloads : singleQueue' = Append(singleQueue, p)
    /\ UNCHANGED <<singleAutomaticPosition, singleCurrentPosition,
                   singlePacketBuffer, singleLevel, singlePc, singleTarget,
                   singleOpto, cover, shelly>>

\* The wall switch changes a manual input; the inputs are read in
\* getTargetPosition
SingleSwitchChange ==
    /\ singlePc = "moveCurtain"
    /\ \E p \in {SINGLE_MANUAL_DOWN, SINGLE_MANUAL_UP} :
         singleLevel' =
            [singleLevel EXCEPT ![p] = IF @ = "HIGH" THEN "LOW" ELSE "HIGH"]
    /\ UNCHANGED <<singleAutomaticPosition, singleCurrentPosition,
                   singlePacketBuffer, singleQueue, singlePc, singleTarget,
                   singleOpto, cover, shelly>>

\* updateAutomaticPosition(), lines 74-87: at most one datagram
SingleUpdate ==
    /\ singlePc = "updateAutomaticPosition"
    /\ LET packetSize == parsePacket(singleQueue)
       IN  IF packetSize # 0
           THEN LET buffer == readInto(singlePacketBuffer, Head(singleQueue))
                IN  /\ singlePacketBuffer' = buffer
                    /\ singleAutomaticPosition' =
                          applySingleCommand(singleAutomaticPosition, buffer,
                                             packetSize)
           ELSE UNCHANGED <<singlePacketBuffer, singleAutomaticPosition>>
    /\ singleQueue' = IF singleQueue = <<>> THEN <<>> ELSE Tail(singleQueue)
    /\ singlePc' = "moveCurtain"
    /\ UNCHANGED <<singleCurrentPosition, singleLevel, singleTarget, singleOpto,
                   cover, shelly>>

\* moveCurtain(getTargetPosition()) returns without a pulse, lines 71, 112-127
SingleMoveSkip ==
    /\ singlePc = "moveCurtain"
    /\ LET t == getSingleTargetPosition(singleLevel, singleAutomaticPosition)
       IN  t = singleCurrentPosition \/ t = "unknown"
    /\ singlePc' = "updateAutomaticPosition"
    /\ UNCHANGED <<singleAutomaticPosition, singleCurrentPosition,
                   singlePacketBuffer, singleLevel, singleQueue, singleTarget,
                   singleOpto, cover, shelly>>

\* moveCurtain(getTargetPosition()) drives the LED and its line HIGH, lines
\* 71, 112-131
SingleMoveHigh ==
    /\ singlePc = "moveCurtain"
    /\ LET t == getSingleTargetPosition(singleLevel, singleAutomaticPosition)
           line == IF t = "up" THEN SINGLE_OPTO_UP ELSE SINGLE_OPTO_DOWN
       IN  /\ t # singleCurrentPosition
           /\ t # "unknown"
           /\ singleTarget' = t
           /\ singleOpto' = line
           /\ singleLevel' =
                 [singleLevel EXCEPT ![SIGNAL_LED] = "HIGH", ![line] = "HIGH"]
    /\ singlePc' = "delay"
    /\ UNCHANGED <<singleAutomaticPosition, singleCurrentPosition,
                   singlePacketBuffer, singleQueue, cover, shelly>>

\* after delay(200) the line and the LED are driven LOW and the position is
\* recorded, lines 132-136
SingleMoveLow ==
    /\ singlePc = "delay"
    /\ singleLevel' =
          [singleLevel EXCEPT ![singleOpto] = "LOW", ![SIGNAL_LED] = "LOW"]
    /\ singleCurrentPosition' = singleTarget
    /\ singleTarget' = "none"
    /\ singleOpto' = -1
    /\ singlePc' = "updateAutomaticPosition"
    /\ UNCHANGED <<singleAutomaticPosition, singlePacketBuffer, singleQueue,
                   cover, shelly>>

NextSingle ==
    \/ SingleArrive
    \/ SingleSwitchChange
    \/ SingleUpdate
    \/ SingleMoveSkip
    \/ SingleMoveHigh
    \/ SingleMoveLow

SpecSingle == Init /\ [][NextSingle]_vars

\* C14: in the sketch for one curtain automaticPosition changes only when a
\* datagram is handled whose payload is exactly "open", and then to up, or
\* exactly "close", and then to down; every other payload, a proper prefix
\* such as "o" or "clo" among them, leaves it unchanged.
C14_OnlyOpenAndClose ==
    [][ singleAutomaticPosition' # singleAutomaticPosition =>
            /\ singlePc = "updateAutomaticPosition"
            /\ singleQueue # <<>>
            /\ \/ Head(singleQueue) = OPEN /\ singleAutomaticPosition' = "up"
               \/ Head(singleQueue) = CLOSE /\ singleAutomaticPosition' = "down"
      ]_vars

----------------------------------------------------------------------------
(* The washer script: energy-monitor-shelly.js *)

\* the thresholds of lines 18 and 21, in tenths of a watt
ACTIVE_ABOVE == 200
INACTIVE_BELOW == 32
\* the number of samples a change is held back, lines 32 and 35
HELD_BACK == 5

\* apower, in tenths of a watt
Powers == {0, INACTIVE_BELOW - 1, INACTIVE_BELOW, ACTIVE_ABOVE, ACTIVE_ABOVE + 1}

\* a script that holds no 'stop' back
stillPaused_never(last, new, seen) == FALSE

\* the condition of line 32
stillPaused(last, new, seen) == last = "start" /\ new = "stop" /\ seen < HELD_BACK

\* the condition of line 35
stillStarting(last, new, seen) == last = "stop" /\ new = "start" /\ seen < HELD_BACK

Count(n) == Min(n + 1, MaxSeen)

\* updateMeasurement(), lines 11-46, called by the timer every second; the
\* plug reports any power and the MQTT connection is up or down
UpdateMeasurement ==
    \E sample \in Powers, isConnected \in BOOLEAN :
        LET measured == IF sample > ACTIVE_ABOVE THEN "start" ELSE "stop"
            inactive == IF sample > ACTIVE_ABOVE THEN 0 ELSE seenAsInactive
            active == IF sample > ACTIVE_ABOVE THEN seenAsActive ELSE 0
            paused == stillPaused(lastState, measured, inactive)
            starting == ~paused /\ stillStarting(lastState, measured, active)
            first == ~paused /\ ~starting /\ lastState = "" /\ measured = "stop"
            newState == IF paused \/ starting THEN lastState ELSE measured
            state == IF first THEN measured ELSE lastState
            publish == newState # state /\ isConnected
        IN  /\ power' = sample
            /\ IF sample <= ACTIVE_ABOVE /\ sample >= INACTIVE_BELOW
               THEN /\ publishing' = "none"
                    /\ UNCHANGED <<lastState, seenAsInactive, seenAsActive,
                                   lastPublished, lowsSinceHigh, highsSinceLow>>
               ELSE /\ seenAsInactive' = IF paused THEN inactive + 1 ELSE inactive
                    /\ seenAsActive' = IF starting THEN active + 1 ELSE active
                    /\ lastState' = IF publish THEN newState ELSE state
                    /\ publishing' = IF publish THEN newState ELSE "none"
                    /\ lastPublished' = IF publish THEN newState ELSE lastPublished
                    /\ lowsSinceHigh' = IF sample > ACTIVE_ABOVE THEN 0
                                        ELSE Count(lowsSinceHigh)
                    /\ highsSinceLow' = IF sample > ACTIVE_ABOVE
                                        THEN Count(highsSinceLow) ELSE 0
        /\ UNCHANGED <<cover, single>>

NextShelly == UpdateMeasurement

SpecShelly == Init /\ [][NextShelly]_vars

\* C20: when the state published last is 'start', 'stop' is published only
\* on a sample below 3.2 W that follows at least 5 other samples below 3.2 W
\* since the last sample above 20 W; when it is 'stop', 'start' is published
\* only on a sample above 20 W that follows at least 5 other samples above
\* 20 W since the last sample below 3.2 W; a sample from 3.2 W to 20 W changes
\* nothing; and no state is published twice in succession.
C20_PauseIsNotStop ==
    [][ /\ publishing' = "stop" /\ lastPublished = "start" =>
              /\ power' < INACTIVE_BELOW
              /\ lowsSinceHigh >= 5
        /\ publishing' = "start" /\ lastPublished = "stop" =>
              /\ power' > ACTIVE_ABOVE
              /\ highsSinceLow >= 5
        /\ power' >= INACTIVE_BELOW /\ power' <= ACTIVE_ABOVE =>
              /\ publishing' = "none"
              /\ UNCHANGED <<lastState, seenAsInactive, seenAsActive>>
        /\ publishing' # "none" =>
              /\ publishing' # lastPublished
              /\ lastPublished' = publishing'
        /\ publishing' = "none" => lastPublished' = lastPublished
      ]_vars

\* 'stop' has been published with the sixth sample below 3.2 W after a cycle
C20_Witness ==
    /\ publishing = "stop"
    /\ lastState = "stop"
    /\ seenAsInactive = 5
    /\ lowsSinceHigh = 6
    /\ power = 0

----------------------------------------------------------------------------
(* Termination of getOpModeStable *)

\* control is in updateAutomaticPosition or between two iterations
Ingesting == pc \in {"loop", "updateAutomaticPosition"}

\* C16: getOpModeStable returns only with a legal sample that equals the
\* legal sample before it, and until then no datagram is taken and no output
\* changes: neither inputs that stay both HIGH nor samples that alternate
\* let it return.  When the inputs hold one legal combination from some
\* point on, getOpModeStable returns, from then on with the mode of that
\* combination, and the iteration runs to its end.
C16_ResolutionTerminates ==
    /\ [][ Resolving /\ ~Resolving' =>
              /\ pc = "getOpModeAgain"
              /\ samples # <<>>
              /\ rawSwitch(level) # 3
              /\ rawMode(rawSwitch(level)) = samples[Len(samples)]
              /\ curtainOpMode' = samples[Len(samples)]
         ]_vars
    /\ [][ Resolving /\ Resolving' =>
              /\ UNCHANGED <<automaticPosition, currentPosition, curtainOpMode,
                             udpQueue>>
              /\ \A p \in OutputPins : level'[p] = level[p]
         ]_vars
    /\ \A c \in 0..2 :
          <>[](rawSwitch(level) = c) =>
              /\ []<>Ingesting
              /\ <>[](~Ingesting /\ ~Resolving => curtainOpMode = rawMode(c))

\* with the inputs LOW, getOpModeStable has returned automatic after the
\* samples manual_up, automatic, automatic
C16_Witness ==
    /\ Resolved
    /\ rawSwitch(level) = 0
    /\ samples = <<"manual_up", "automatic", "automatic">>
    /\ curtainOpMode = "automatic"

====
